---- MODULE Spec2Model ----
(***************************************************************************)
(* A model of the Discord + Favro timesheet bot.                           *)
(*                                                                         *)
(* Text is modelled as a tuple of one-character strings, so that the       *)
(* regular expressions, case conversions and number conversions of the     *)
(* code are computed, character by character.  A JavaScript value that may *)
(* be null/undefined is modelled as a tuple that is empty (null) or holds  *)
(* the value as its one element.                                           *)
(***************************************************************************)
EXTENDS Integers, Sequences, FiniteSets, TLC

\* ------------------------------------------------------------------ bounds

\* The longest token list of a report request.
MaxTokens == 2
\* The number of clock ticks of one local day, and the day's offset from UTC.
DayLen == 4
TZOffset == 1

\* ------------------------------------------------------------------- text

LowerLetters == <<"a", "b", "c", "d", "k", "o", "x">>
UpperLetters == <<"A", "B", "C", "D", "K", "O", "X">>
DigitChars == <<"0", "1", "2", "3", "4", "5", "6", "7", "8", "9">>

Range(s) == {s[i] : i \in DOMAIN s}
IndexOf(s, x) == CHOOSE i \in DOMAIN s : s[i] = x

IsLetter(ch) == ch \in Range(LowerLetters) \cup Range(UpperLetters)
IsDigit(ch) == ch \in Range(DigitChars)
\* [A-Za-z0-9_-]
IsIdChar(ch) == IsLetter(ch) \/ IsDigit(ch) \/ ch \in {"_", "-"}

\* String.prototype.toUpperCase / toLowerCase, one character at a time.
UpperChar(ch) ==
    IF ch \in Range(LowerLetters) THEN UpperLetters[IndexOf(LowerLetters, ch)] ELSE ch
LowerChar(ch) ==
    IF ch \in Range(UpperLetters) THEN LowerLetters[IndexOf(UpperLetters, ch)] ELSE ch
toUpperCase(s) == [i \in DOMAIN s |-> UpperChar(s[i])]
toLowerCase(s) == [i \in DOMAIN s |-> LowerChar(s[i])]

\* Number("123") for a string of digits.
RECURSIVE Number(_)
Number(ds) ==
    IF ds = <<>> THEN 0
    ELSE 10 * Number(SubSeq(ds, 1, Len(ds) - 1)) + (IndexOf(DigitChars, ds[Len(ds)]) - 1)

\* String(n) for a natural number.
RECURSIVE String(_)
String(n) ==
    IF n < 10 THEN <<DigitChars[n + 1]>>
    ELSE String(n \div 10) \o <<DigitChars[(n % 10) + 1]>>

\* s.padStart(2, '0')
padStart2(s) == IF Len(s) >= 2 THEN s ELSE IF Len(s) = 1 THEN <<"0">> \o s ELSE <<"0", "0">>

\* ------------------------------------------------------------- configuration

\* process.env.FAVRO_WIDGET_IDS, split on commas.
WIDGET_IDS == <<"w1", "w2">>
\* process.env.FAVRO_MAX_PAGES_PER_WIDGET
MAX_PAGES_PER_WIDGET == 2
\* The shortest text the card id pattern {8,} accepts.
MinIdLen == 8
\* Milliseconds in a minute (fmtHHMM).
MsPerMinute == 60000

\* ------------------------------------------------------------ token parsing

\* A pattern that would accept a key without digits, /^([A-Za-z]+)-(\d*)$/.
KeyHyphenLoose(s) ==
    LET ks == {k \in DOMAIN s :
                 /\ s[k] = "-"
                 /\ k > 1
                 /\ \A i \in 1..(k - 1) : IsLetter(s[i])
                 /\ \A i \in (k + 1)..Len(s) : IsDigit(s[i])}
    IN IF ks = {} THEN 0 ELSE CHOOSE k \in ks : TRUE

\* /^([A-Za-z]+)-(\d+)$/ : the place of the hyphen when the text matches, 0 otherwise.
KeyHyphen(s) ==
    LET ks == {k \in DOMAIN s :
                 /\ s[k] = "-"
                 /\ k > 1 /\ k < Len(s)
                 /\ \A i \in 1..(k - 1) : IsLetter(s[i])
                 /\ \A i \in (k + 1)..Len(s) : IsDigit(s[i])}
    IN IF ks = {} THEN 0 ELSE CHOOSE k \in ks : TRUE

\* /^[A-Za-z]+-\d+$/.test(s)
IsKeyShape(s) == KeyHyphen(s) # 0

\* A test that would stop at the pattern, /^[A-Za-z0-9_-]{8,}$/.test(s).
IsCommonIdShapeLoose(s) ==
    /\ Len(s) >= MinIdLen
    /\ \A i \in DOMAIN s : IsIdChar(s[i])

\* /^[A-Za-z0-9_-]{8,}$/.test(s) && !s.includes('-')
IsCommonIdShape(s) ==
    /\ Len(s) >= MinIdLen
    /\ \A i \in DOMAIN s : IsIdChar(s[i])
    /\ \A i \in DOMAIN s : s[i] # "-"

\* parseKey: null, or {prefix, sequentialId}.
parseKey(s) ==
    LET k == KeyHyphen(s) IN
    IF k = 0 THEN <<>>
    ELSE <<[prefix |-> toUpperCase(SubSeq(s, 1, k - 1)),
            sequentialId |-> Number(SubSeq(s, k + 1, Len(s)))]>>

\* /\.favro\.com$|^favro\.com$/i on a host name given as its labels.
IsFavroHost(labels) ==
    /\ Len(labels) >= 2
    /\ labels[Len(labels) - 1] = "favro"
    /\ labels[Len(labels)] = "com"

\* parseFavroUrlToken.  A token is [str, url]: its text, and what new URL(text)
\* yields (empty when it throws): [hostname, parts, card].
parseFavroUrlToken(t) ==
    IF t.url = <<>> THEN <<>>
    ELSE LET url == t.url[1]
             parts == url.parts
             hasOrg == "organization" \in Range(parts)
             orgIdx == IF hasOrg
                       THEN CHOOSE i \in DOMAIN parts :
                              /\ parts[i] = "organization"
                              /\ \A j \in 1..(i - 1) : parts[j] # "organization"
                       ELSE 0
             cardParam == url.card
         IN IF ~IsFavroHost(url.hostname) THEN <<>>
            ELSE IF ~hasOrg \/ Len(parts) < orgIdx + 2 THEN <<>>
            ELSE <<[orgId |-> parts[orgIdx + 1],
                    widgetCommonId |-> parts[orgIdx + 2],
                    cardCommonId |-> IF cardParam # <<>> /\ IsCommonIdShape(cardParam)
                                     THEN cardParam ELSE <<>>,
                    cardKey |-> IF cardParam # <<>> /\ ~IsCommonIdShape(cardParam)
                                   /\ IsKeyShape(cardParam)
                                THEN cardParam ELSE <<>>]>>

\* ---------------------------------------------------------------- helpers

\* A rounding that would drop the seconds.
fmtHHMMFloor(ms) ==
    LET mins == ms \div MsPerMinute
        h == mins \div 60
        m == mins % 60
    IN padStart2(String(h)) \o <<":">> \o padStart2(String(m))

\* fmtHHMM.  Math.round of a non-negative quotient rounds half up.
fmtHHMM(ms) ==
    LET mins == (ms + (MsPerMinute \div 2)) \div MsPerMinute
        h == mins \div 60
        m == mins % 60
    IN padStart2(String(h)) \o <<":">> \o padStart2(String(m))

\* getCardKey.  A card is [cardCommonId, sequentialId, prefix, customFields]; the
\* fields are those left by the ?? chains (sequentialId ?? cardNumber ?? cardIdShort,
\* prefix ?? workspacePrefix): sequentialId is empty or holds a number, the texts
\* are empty when the payload omits them.
getCardKey(card) ==
    LET seq == card.sequentialId
        pre == card.prefix
        seqTruthy == seq # <<>> /\ seq[1] # 0
    IN IF seqTruthy /\ pre # <<>> THEN pre \o <<"-">> \o String(seq[1])
       ELSE IF seqTruthy THEN String(seq[1])
       ELSE IF card.cardCommonId # <<>>
            THEN toUpperCase(SubSeq(card.cardCommonId, 1,
                     IF Len(card.cardCommonId) < 8 THEN Len(card.cardCommonId) ELSE 8))
       ELSE <<"(card)">>

\* dayjs(x).tz(TZ).startOf('day') and endOf('day') as instants.  An instant is a
\* number of ticks; the local clock of TZ reads instant + TZOffset.
startOfDay(instant) == ((instant + TZOffset) \div DayLen) * DayLen - TZOffset
endOfDay(instant) == startOfDay(instant) + DayLen - 1

\* A test of the day that would leave its first and last instants out.
isTodayInTZOpen(iso, nowS, nowE) ==
    IF iso = <<>> THEN FALSE
    ELSE iso[1] > startOfDay(nowS) /\ iso[1] < endOfDay(nowE)

\* isTodayInTZ.  iso is empty or holds an instant; nowS and nowE are the two
\* readings of the clock, dayjs(), that give s and e.
isTodayInTZ(iso, nowS, nowE) ==
    IF iso = <<>> THEN FALSE
    ELSE LET t == iso[1]
             s == startOfDay(nowS)
             e == endOfDay(nowE)
         IN (t > s /\ t < e) \/ t = s \/ t = e

\* An extractor that would take the first custom field of the card, whatever its id.
extractFirstField(card, favroUserId, timeCfId, nowS, nowE) ==
    LET fs == card.customFields
        Today(r) == isTodayInTZ(r.createdAt, nowS, nowE)
    IN IF fs = <<>> THEN <<>>
       ELSE LET cf == fs[1]
                entries == IF favroUserId \in DOMAIN cf.reports
                           THEN cf.reports[favroUserId] ELSE <<>>
                kept == SelectSeq(entries, Today)
            IN [i \in DOMAIN kept |->
                  [ms |-> kept[i].value,
                   desc |-> IF kept[i].description = "" THEN "(no description)"
                            ELSE kept[i].description,
                   createdAt |-> kept[i].createdAt]]

\* extractTodaysReports.  A custom field is [customFieldId, reports] with reports a
\* function from user ids to sequences of [value, description, createdAt]; a field
\* without reports has the empty function.  nowS and nowE are the readings of the
\* clock that isTodayInTZ makes.
extractTodaysReports(card, favroUserId, timeCfId, nowS, nowE) ==
    LET fs == card.customFields
        idx == {i \in DOMAIN fs : fs[i].customFieldId = timeCfId}
        Today(r) == isTodayInTZ(r.createdAt, nowS, nowE)
    IN IF idx = {} THEN <<>>
       ELSE LET cf == fs[CHOOSE i \in idx : \A j \in idx : i <= j]
                entries == IF favroUserId \in DOMAIN cf.reports
                           THEN cf.reports[favroUserId] ELSE <<>>
                kept == SelectSeq(entries, Today)
            IN [i \in DOMAIN kept |->
                  [ms |-> kept[i].value,
                   desc |-> IF kept[i].description = "" THEN "(no description)"
                            ELSE kept[i].description,
                   createdAt |-> kept[i].createdAt]]

\* ------------------------------------------------------------------- state

VARIABLES
    map,        \* data/user-map.json: Discord user id -> Favro user id
    timeCfId,   \* TIME_CF_ID: empty when the environment does not set it
    svc,        \* what the Favro API may answer (see the data section)
    backendId,  \* favro.defaults.headers.common['X-Favro-Backend-Identifier']
    now,        \* the clock, an instant
    inter,      \* the number of the interaction being handled (its reply's message id)
    cmd,        \* interaction.commandName
    chan,       \* interaction.channelId
    caller,     \* interaction.user.id
    tokens,     \* the cards option of /timesheet, split into tokens
    pc,         \* where the handler stands: idle, token, direct, list, detail, done
    ti,         \* the index of the token of the for loop (0 before the loop)
    site,       \* which await of the loop body is pending: A (URL branch), B, C
    scan,       \* the locals of findCardByKeyInBoards
    results,    \* the results array
    reply,      \* what editReply delivered, empty before
    msgs,       \* the bot's messages in the channels
    lastTimesheet, \* data/last-timesheet.json: (user, channel) -> message id
    calls,      \* history: the Favro requests sent for the current token
    answers,    \* history: the answers to them
    outcomes,   \* history: per finished token, what it resolved to
    failed,     \* history: a Favro request of this interaction failed, not with a 403
    ops,        \* the /linkfavro and /unlinkfavro interactions, with their handlers' locals
    linkLog,    \* history: the link and unlink handlers that ended, in the order they ended
    probe,      \* the arguments of a function under test
    out         \* its result, empty before the call

reportVars ==
    <<inter, cmd, chan, caller, tokens, pc, ti, site, scan, results, reply, msgs,
      lastTimesheet, calls, answers, outcomes, failed>>
envVars == <<map, timeCfId, svc>>
linkVars == <<ops, linkLog>>
probeVars == <<probe, out>>
vars ==
    <<map, timeCfId, svc, backendId, now, inter, cmd, chan, caller, tokens, pc, ti,
      site, scan, results, reply, msgs, lastTimesheet, calls, answers, outcomes, failed,
      ops, linkLog, probe, out>>

\* ----------------------------------------------------------------- the data

Callers == {"d1", "d2"}
Channels == {"ch1", "ch2"}

Id1 == <<"c", "a", "d", "0", "0", "0", "0", "1">>
Id2 == <<"c", "a", "d", "0", "0", "0", "0", "2">>

\* The last instant of a local day and the first instant of the next one.
LateToday == 2 * DayLen - 1 - TZOffset
NextDay == 2 * DayLen - TZOffset

Rep(ms, text, at) == [value |-> ms, description |-> text, createdAt |-> at]

\* Cards as the detailed fetch (include=customFields) returns them.
CardB1 ==
    [cardCommonId |-> Id1, sequentialId |-> <<1>>, prefix |-> <<"B">>,
     customFields |-> <<[customFieldId |-> "time",
                        reports |-> [u \in {"u1"} |->
                            <<Rep(90 * MsPerMinute, "Fixed bug", <<LateToday>>),
                              Rep(29999, "", <<LateToday>>)>>]]>>]
CardA1 ==
    [cardCommonId |-> Id2, sequentialId |-> <<1>>, prefix |-> <<"A">>,
     customFields |-> <<[customFieldId |-> "time",
                        reports |-> [u \in {"u1"} |->
                            <<Rep(MsPerMinute, "Review", <<NextDay>>)>>]]>>]

\* Entities as a list page (include=basic) returns them.
Basic(id, seq, pre) ==
    [cardCommonId |-> id, sequentialId |-> seq, prefix |-> pre, customFields |-> <<>>]

\* Tokens.  The text of a URL starts with its scheme, which is no letter, digit,
\* underscore or hyphen.
Plain(str) == [str |-> str, url |-> <<>>]
Url(host, parts, card) ==
    [str |-> <<"https://">> \o card,
     url |-> <<[hostname |-> host, parts |-> parts, card |-> card]>>]

TokKey == Plain(<<"b", "-", "1">>)
\* A key as long as a card id.
TokKeyLong == Plain(<<"B", "O", "K", "-", "6", "0", "7", "4">>)
TokId == Plain(Id1)
TokBad == Plain(<<"b", "-">>)
TokUrlKey == Url(<<"favro", "com">>, <<"organization", "o", "w3">>, <<"B", "-", "1">>)
TokUrlId == Url(<<"app", "favro", "com">>, <<"organization", "o", "w2">>, Id2)
TokUrlOther == Url(<<"favro", "com", "x">>, <<"organization", "o", "w3">>, <<"B", "-", "1">>)
TokUrlBare == Url(<<"favro", "com">>, <<"organization", "o", "w1">>, <<>>)

Tokens ==
    {TokKey, TokKeyLong, TokId, TokBad, TokUrlKey, TokUrlId, TokUrlOther, TokUrlBare}
\* Every short token list, and one of three tokens.
TokenLists == UNION {[1..n -> Tokens] : n \in 0..MaxTokens} \cup {<<TokId, TokKey, TokBad>>}

\* An answer of the Favro API: a 2xx response with its data and headers, a 403, or
\* any other failure (another status, a timeout).
Answer(kind, entities, pages, requestId, header) ==
    [kind |-> kind, entities |-> entities, pages |-> pages, requestId |-> requestId,
     header |-> header]
Page(entities, pages, requestId, header) == Answer("ok", entities, pages, requestId, header)
Found(entities, header) == Answer("ok", entities, 0, <<>>, header)
Denied == Answer("denied", <<>>, 0, <<>>, <<>>)
Failure == Answer("error", <<>>, 0, <<>>, <<>>)

\* The service of the report model: boards of one page, so that token lists may
\* be long.
SmallSvc ==
    [lists |-> {Page(<<>>, 0, <<"r1">>, <<>>),
                Page(<<Basic(Id1, <<1>>, <<"b">>)>>, 0, <<"r1">>, <<"h1">>),
                Page(<<Basic(Id2, <<1>>, <<>>), Basic(<<>>, <<1>>, <<"B">>)>>, 0,
                     <<"r1">>, <<"h1">>)},
     cards |-> {Found(<<>>, <<"h1">>), Found(<<CardB1>>, <<>>), Found(<<CardA1>>, <<"h1">>)},
     users |-> {}]

\* The service of the scan model: boards of several pages, cursors, more cards.
CardLow ==
    [cardCommonId |-> Id1, sequentialId |-> <<1>>, prefix |-> <<"b">>,
     customFields |-> <<>>]
CardB2 ==
    [cardCommonId |-> Id1, sequentialId |-> <<2>>, prefix |-> <<"B">>,
     customFields |-> <<>>]
RichSvc ==
    [lists |-> {Page(<<>>, 3, <<"r1">>, <<"h1">>),
                Page(<<Basic(Id1, <<>>, <<"B">>), Basic(<<>>, <<1>>, <<>>)>>, 1,
                     <<"r2">>, <<>>),
                Page(<<Basic(Id1, <<2>>, <<"B">>), Basic(Id2, <<1>>, <<"b">>)>>, 0,
                     <<"r1">>, <<"h2">>),
                Page(<<Basic(Id1, <<1>>, <<>>), Basic(<<>>, <<1>>, <<"B">>)>>, 2,
                     <<>>, <<"h1">>),
                Page(<<Basic(Id1, <<1>>, <<"A">>)>>, 3, <<>>, <<>>)},
     cards |-> {Found(<<>>, <<>>), Found(<<CardB1>>, <<"h1">>), Found(<<CardA1>>, <<>>),
                Found(<<CardLow>>, <<"h2">>), Found(<<CardB2>>, <<>>)},
     users |-> {}]
TokUrlKey2 == Url(<<"favro", "com">>, <<"organization", "o", "w2">>, <<"b", "-", "1">>)

CardAnswers == svc.cards \cup {Denied, Failure}
\* The answers to a request for the card of an id: the entity, if any, is that card.
CardAnswersFor(cardCommonId) ==
    {a \in CardAnswers : a.entities = <<>> \/ a.entities[1].cardCommonId = cardCommonId}
ListAnswers == svc.lists \cup {Denied, Failure}

\* A service in a given state: every board is closed to the token (403) or has
\* its pages of cards, and a list page shows the prefix of a card or not.
HasState == "boards" \in DOMAIN svc
BasicOf(c) ==
    Basic(c.cardCommonId, c.sequentialId, IF svc.prefixListed THEN c.prefix ELSE <<>>)
\* Its answer to the list request req: the page asked for, the first one when the
\* request names none.
StateList(req) ==
    LET board == svc.boards[req.widgetCommonId]
        n == IF req.page = <<>> THEN 1 ELSE req.page[1] + 1
        cards == IF n \in DOMAIN board.pages THEN board.pages[n] ELSE <<>>
    IN IF board.denied THEN Denied
       ELSE Page([i \in DOMAIN cards |-> BasicOf(cards[i])], Len(board.pages),
                 <<"r1">>, <<>>)
\* Its answer to the request for the card of an id.
StateCard(cardCommonId) ==
    LET found == {c \in svc.items : c.cardCommonId = cardCommonId}
    IN IF found = {} THEN Found(<<>>, <<>>) ELSE Found(<<CHOOSE c \in found : TRUE>>, <<>>)

\* The answers a request may get.
ListAnswersFor(req) == IF HasState THEN {StateList(req)} ELSE ListAnswers
CardAnswersTo(req) ==
    IF HasState THEN {StateCard(req.cardCommonId)} ELSE CardAnswersFor(req.cardCommonId)

\* What the history keeps of an answer.
Heard(ans) ==
    [kind |-> ans.kind, entities |-> ans.entities, pages |-> ans.pages,
     requestId |-> ans.requestId, header |-> ans.header]

\* ------------------------------------------------------- the Favro client

\* The params of favro.get('/cards', ...): of fetchCardByCommonId, and of a list page;
\* backend is the X-Favro-Backend-Identifier header the request interceptor
\* attaches, the one persisted when the request is sent: after the answer, if
\* any, that the step sending it has handled.
CardReq(cardCommonId) ==
    [kind |-> "card", widgetCommonId |-> "", cardCommonId |-> cardCommonId,
     requestId |-> <<>>, page |-> <<>>, backend |-> backendId']
ListReq(sc) ==
    [kind |-> "list", widgetCommonId |-> sc.order[sc.wi], cardCommonId |-> <<>>,
     requestId |-> sc.requestId,
     page |-> IF sc.requestId # <<>> THEN <<sc.page>> ELSE <<>>,
     backend |-> backendId']

\* The response interceptor (and the same assignment after a list page): it sees
\* the fulfilled responses only.
persistBackendId(ans) ==
    backendId' = IF ans.kind = "ok" /\ ans.header # <<>> THEN ans.header ELSE backendId

\* A direct lookup that would rethrow a 403 like any other failure.
fetchCardByCommonIdStrict(ans) ==
    IF ans.kind = "ok"
    THEN [throws |-> FALSE,
          card |-> IF ans.entities # <<>> THEN <<ans.entities[1]>> ELSE <<>>]
    ELSE [throws |-> TRUE, card |-> <<>>]

\* fetchCardByCommonId, given the answer to its request: the card or null it
\* returns, or that it throws.
fetchCardByCommonId(ans) ==
    IF ans.kind = "ok"
    THEN [throws |-> FALSE,
          card |-> IF ans.entities # <<>> THEN <<ans.entities[1]>> ELSE <<>>]
    ELSE IF ans.kind = "denied" THEN [throws |-> FALSE, card |-> <<>>]
    ELSE [throws |-> TRUE, card |-> <<>>]

\* A list request whose 403 would be rethrown.
listPageStrict(ans) == IF ans.kind = "ok" THEN "page" ELSE "throw"

\* The try/catch around the list request of findCardByKeyInBoards: go on with the
\* page, skip the board, or throw.
listPage(ans) ==
    IF ans.kind = "ok" THEN "page" ELSE IF ans.kind = "denied" THEN "skip" ELSE "throw"

\* --------------------------------------------------------- handleTimesheet

NoScan ==
    [key |-> <<>>, order |-> <<>>, wi |-> 0, page |-> 0, pages |-> 1,
     requestId |-> <<>>, mode |-> "", cand |-> <<>>, rest |-> <<>>]

NotFoundDesc == "(card not found in scoped boards)"
NoEntryDesc == "(no timesheet entry for today)"
ZeroTime == <<"0", "0", ":", "0", "0">>

Reply(kind, lines) == <<[kind |-> kind, lines |-> lines]>>

\* editReply: the interaction's message gets its content.
editReply(kind, lines) ==
    /\ reply' = Reply(kind, lines)
    /\ msgs' = msgs \cup {[id |-> inter, by |-> caller, ch |-> chan, kind |-> kind]}

\* A loop body that would push nothing for a card without entries today.
linesForSilent(t, card, entries) ==
    IF card = <<>>
    THEN <<[cardKey |-> t.str, time |-> ZeroTime, desc |-> NotFoundDesc]>>
    ELSE [i \in DOMAIN entries |->
            [cardKey |-> getCardKey(card[1]), time |-> fmtHHMM(entries[i].ms),
             desc |-> entries[i].desc]]

\* The lines pushed for one token (the end of the loop body).
linesFor(t, card, entries) ==
    IF card = <<>>
    THEN <<[cardKey |-> t.str, time |-> ZeroTime, desc |-> NotFoundDesc]>>
    ELSE IF entries # <<>>
    THEN [i \in DOMAIN entries |->
            [cardKey |-> getCardKey(card[1]), time |-> fmtHHMM(entries[i].ms),
             desc |-> entries[i].desc]]
    ELSE <<[cardKey |-> getCardKey(card[1]), time |-> ZeroTime, desc |-> NoEntryDesc]>>

\* Every step of the loop ends in one of these: the token is finished, or a
\* request is sent and its answer awaited.  log is the history of the token.
finishToken(card, log) ==
    LET entries == IF card = <<>> THEN <<>>
                   ELSE extractTodaysReports(card[1], map[caller], timeCfId[1], now, now)
    IN /\ results' = results \o linesFor(tokens[ti], card, entries)
       /\ outcomes' = Append(outcomes,
                             [card |-> card, entries |-> entries, called |-> log # <<>>])
       /\ ti' = ti + 1
       /\ pc' = "token"
       /\ site' = ""
       /\ scan' = NoScan
       /\ calls' = log
       /\ UNCHANGED <<reply, msgs>>

sendCard(cardCommonId, at, sc, where, log) ==
    /\ pc' = where
    /\ site' = at
    /\ scan' = sc
    /\ calls' = Append(log, CardReq(cardCommonId))
    /\ UNCHANGED <<results, outcomes, ti, reply, msgs>>

sendList(sc, at, log) ==
    /\ pc' = "list"
    /\ site' = at
    /\ scan' = sc
    /\ calls' = Append(log, ListReq(sc))
    /\ UNCHANGED <<results, outcomes, ti, reply, msgs>>

\* A catch block that would deliver the lines gathered before the failure.
abortPartial ==
    /\ editReply("failed", results)
    /\ pc' = "done"
    /\ UNCHANGED <<results, outcomes, ti, site, scan, calls>>

\* A catch block that would give the token up and go on with the next one.
abortToken == finishToken(<<>>, calls)

\* The catch block of handleTimesheet.
abort ==
    /\ editReply("failed", <<>>)
    /\ pc' = "done"
    /\ UNCHANGED <<results, outcomes, ti, site, scan, calls>>

RECURSIVE pushAll(_, _)
pushAll(acc, ws) ==
    IF ws = <<>> THEN acc
    ELSE pushAll(IF Head(ws) \in Range(acc) THEN acc ELSE Append(acc, Head(ws)), Tail(ws))

\* An order that would take the configured boards after the hint as they are.
orderedWidgetsAll(preferredWidgetId) == preferredWidgetId \o WIDGET_IDS

\* An order that would scan the board of the hint and no other.
orderedWidgetsHintOnly(preferredWidgetId) ==
    IF preferredWidgetId # <<>> THEN preferredWidgetId ELSE WIDGET_IDS

\* orderedWidgets of findCardByKeyInBoards.
orderedWidgets(preferredWidgetId) == pushAll(preferredWidgetId, WIDGET_IDS)

preferredOf(t) ==
    LET p == parseFavroUrlToken(t) IN IF p = <<>> THEN <<>> ELSE <<p[1].widgetCommonId>>

\* if (!card) { key = parseKey(t); if (key) card = await findCardByKeyInBoards(...) }
afterSiteB(card, log) ==
    LET key == parseKey(tokens[ti].str)
        order == orderedWidgets(preferredOf(tokens[ti]))
    IN IF card = <<>> /\ key # <<>> /\ order # <<>>
       THEN sendList([NoScan EXCEPT !.key = key, !.order = order, !.wi = 1], "C", log)
       ELSE finishToken(card, log)

\* if (looks like a cardCommonId) card = await fetchCardByCommonId(t)
afterSiteA(card, log) ==
    IF IsCommonIdShape(tokens[ti].str)
    THEN sendCard(tokens[ti].str, "B", NoScan, "direct", log)
    ELSE afterSiteB(card, log)

\* findCardByKeyInBoards returns card to the await it was called from.
afterScan(card, log) ==
    IF site = "A" THEN afterSiteA(card, log) ELSE finishToken(card, log)

\* The next board, or null when there is none.
nextWidget(sc, log) ==
    IF sc.wi < Len(sc.order)
    THEN sendList([sc EXCEPT !.wi = sc.wi + 1, !.page = 0, !.pages = 1,
                             !.requestId = <<>>, !.mode = "", !.cand = <<>>,
                             !.rest = <<>>], site, log)
    ELSE afterScan(<<>>, log)

\* A while condition that would follow the reported page count alone.
pageDoneUnbounded(sc, log) ==
    IF sc.page + 1 < sc.pages
    THEN sendList([sc EXCEPT !.page = sc.page + 1, !.mode = "", !.cand = <<>>,
                             !.rest = <<>>], site, log)
    ELSE nextWidget(sc, log)

\* page++ and the while condition.
pageDone(sc, log) ==
    IF sc.page + 1 < sc.pages /\ sc.page + 1 < MAX_PAGES_PER_WIDGET
    THEN sendList([sc EXCEPT !.page = sc.page + 1, !.mode = "", !.cand = <<>>,
                             !.rest = <<>>], site, log)
    ELSE nextWidget(sc, log)

seqMatches(c, key) == c.sequentialId # <<>> /\ c.sequentialId[1] = key.sequentialId
prefixMatches(c, key) == toUpperCase(c.prefix) # <<>> /\ toUpperCase(c.prefix) = key.prefix

\* A loop that would take the last entity of the page that can be the card.
scanEntitiesLast(sc, ents, log) ==
    LET key == sc.key[1]
        acts == {i \in DOMAIN ents :
                   /\ seqMatches(ents[i], key)
                   /\ (prefixMatches(ents[i], key) \/ ents[i].cardCommonId # <<>>)}
    IN IF acts = {} THEN pageDone(sc, log)
       ELSE LET i == CHOOSE j \in acts : \A k \in acts : j >= k
                c == ents[i]
            IN IF prefixMatches(c, key) /\ c.cardCommonId = <<>>
               THEN afterScan(<<c>>, log)
               ELSE sendCard(c.cardCommonId, site,
                             [sc EXCEPT !.mode = IF prefixMatches(c, key)
                                                 THEN "accept" ELSE "verify",
                                        !.cand = <<c>>,
                                        !.rest = SubSeq(ents, i + 1, Len(ents))],
                             "detail", log)

\* The for loop over a page's entities, from the entities ents on, up to its
\* first return or await.
scanEntities(sc, ents, log) ==
    LET key == sc.key[1]
        acts == {i \in DOMAIN ents :
                   /\ seqMatches(ents[i], key)
                   /\ (prefixMatches(ents[i], key) \/ ents[i].cardCommonId # <<>>)}
    IN IF acts = {} THEN pageDone(sc, log)
       ELSE LET i == CHOOSE j \in acts : \A k \in acts : j <= k
                c == ents[i]
            IN IF prefixMatches(c, key) /\ c.cardCommonId = <<>>
               THEN afterScan(<<c>>, log)
               ELSE sendCard(c.cardCommonId, site,
                             [sc EXCEPT !.mode = IF prefixMatches(c, key)
                                                 THEN "accept" ELSE "verify",
                                        !.cand = <<c>>,
                                        !.rest = SubSeq(ents, i + 1, Len(ents))],
                             "detail", log)

\* A start of the handler that would not look the caller up.
handleTimesheetNoLink ==
    /\ pc = "idle"
    /\ cmd = "timesheet"
    /\ IF timeCfId = <<>>
       THEN editReply("nofield", <<>>) /\ pc' = "done" /\ ti' = ti
       ELSE IF tokens = <<>>
       THEN editReply("notokens", <<>>) /\ pc' = "done" /\ ti' = ti
       ELSE UNCHANGED <<reply, msgs>> /\ pc' = "token" /\ ti' = 1
    /\ UNCHANGED <<inter, cmd, chan, caller, tokens, site, scan, results, lastTimesheet,
                   calls, answers, outcomes, failed>>
    /\ UNCHANGED <<envVars, backendId, now, linkVars, probeVars>>

\* The start of handleTimesheet: deferReply, the link, the field id, the tokens.
handleTimesheet ==
    /\ pc = "idle"
    /\ cmd = "timesheet"
    /\ IF caller \notin DOMAIN map
       THEN editReply("notlinked", <<>>) /\ pc' = "done" /\ ti' = ti
       ELSE IF timeCfId = <<>>
       THEN editReply("nofield", <<>>) /\ pc' = "done" /\ ti' = ti
       ELSE IF tokens = <<>>
       THEN editReply("notokens", <<>>) /\ pc' = "done" /\ ti' = ti
       ELSE UNCHANGED <<reply, msgs>> /\ pc' = "token" /\ ti' = 1
    /\ UNCHANGED <<inter, cmd, chan, caller, tokens, site, scan, results, lastTimesheet,
                   calls, answers, outcomes, failed>>
    /\ UNCHANGED <<envVars, backendId, now, linkVars, probeVars>>

\* One turn of the for loop, up to its first await (or its end, when the token
\* sends no request).
tokenStart ==
    /\ pc = "token"
    /\ ti <= Len(tokens)
    /\ UNCHANGED <<envVars, backendId, now, linkVars, probeVars>>
    /\ LET t == tokens[ti]
           favroUrlParts == parseFavroUrlToken(t)
       IN IF favroUrlParts = <<>> THEN afterSiteA(<<>>, <<>>)
          ELSE IF favroUrlParts[1].cardCommonId # <<>>
          THEN sendCard(favroUrlParts[1].cardCommonId, "A", NoScan, "direct", <<>>)
          ELSE LET keyFromUrl == IF favroUrlParts[1].cardKey # <<>>
                                 THEN parseKey(favroUrlParts[1].cardKey) ELSE <<>>
                   order == orderedWidgets(preferredOf(t))
               IN IF keyFromUrl # <<>> /\ order # <<>>
                  THEN sendList([NoScan EXCEPT !.key = keyFromUrl, !.order = order,
                                               !.wi = 1], "A", <<>>)
                  ELSE afterSiteA(<<>>, <<>>)
    /\ answers' = <<>>
    /\ UNCHANGED <<inter, cmd, chan, caller, tokens, lastTimesheet, failed>>

\* After the loop: the header and the body, delivered by editReply.
render ==
    /\ pc = "token"
    /\ ti > Len(tokens)
    /\ editReply("report", results)
    /\ pc' = "done"
    /\ UNCHANGED <<inter, cmd, chan, caller, tokens, ti, site, scan, results,
                   lastTimesheet, calls, answers, outcomes, failed>>
    /\ UNCHANGED <<envVars, backendId, now, linkVars, probeVars>>

\* What every answer does: the interceptor, and the history.
received(ans) ==
    /\ persistBackendId(ans)
    /\ answers' = Append(answers, Heard(ans))
    /\ failed' = (failed \/ ans.kind = "error")
    /\ UNCHANGED <<inter, cmd, chan, caller, tokens, lastTimesheet>>
    /\ UNCHANGED <<envVars, now, linkVars, probeVars>>

\* The request of the fetchCardByCommonId awaited by the loop body is answered.
directReturn ==
    /\ pc = "direct"
    /\ \E ans \in CardAnswersTo(calls[Len(calls)]) :
          /\ received(ans)
          /\ LET r == fetchCardByCommonId(ans)
             IN IF r.throws THEN abort
                ELSE IF site = "A" THEN afterSiteA(r.card, calls)
                ELSE afterSiteB(r.card, calls)

\* The list request of the while loop is answered.
listReturn ==
    /\ pc = "list"
    /\ \E ans \in ListAnswersFor(calls[Len(calls)]) :
          /\ received(ans)
          /\ LET way == listPage(ans)
             IN IF way = "throw" THEN abort
                ELSE IF way = "skip" THEN nextWidget(scan, calls)
                ELSE scanEntities([scan EXCEPT !.requestId = ans.requestId,
                                               !.pages = IF ans.pages = 0 THEN 1
                                                         ELSE ans.pages],
                                  ans.entities, calls)

\* The card a detailed fetch verified, or not.
verified(detailed, key) ==
    /\ detailed # <<>>
    /\ prefixMatches(detailed[1], key)
    /\ seqMatches(detailed[1], key)

\* The request of the fetchCardByCommonId awaited inside the for loop over a
\* page's entities is answered.
detailReturn ==
    /\ pc = "detail"
    /\ \E ans \in CardAnswersTo(calls[Len(calls)]) :
          /\ received(ans)
          /\ LET r == fetchCardByCommonId(ans)
             IN IF r.throws THEN abort
                ELSE IF scan.mode = "accept"
                THEN afterScan(IF r.card # <<>> THEN r.card ELSE scan.cand, calls)
                ELSE IF verified(r.card, scan.key[1])
                THEN afterScan(r.card, calls)
                ELSE scanEntities(scan, scan.rest, calls)

\* Time passes while a request is awaited, here up to the next local day.
tick ==
    /\ pc \in {"direct", "list", "detail"}
    /\ now < NextDay
    /\ now' = now + 1
    /\ UNCHANGED <<envVars, backendId, reportVars, linkVars, probeVars>>

InitReport ==
    /\ inter = 1
    /\ cmd = "timesheet"
    /\ chan = "ch1"
    /\ caller = "d1"
    /\ map \in {[c \in {} |-> "u1"], [c \in {"d1"} |-> "u1"]}
    /\ timeCfId \in {<<>>, <<"time">>}
    /\ tokens \in TokenLists
    /\ svc = SmallSvc
    /\ backendId = <<>>
    /\ now = LateToday
    /\ pc = "idle"
    /\ ti = 0
    /\ site = ""
    /\ scan = NoScan
    /\ results = <<>>
    /\ reply = <<>>
    /\ msgs = {}
    /\ lastTimesheet = [k \in {} |-> 0]
    /\ calls = <<>>
    /\ answers = <<>>
    /\ outcomes = <<>>
    /\ failed = FALSE
    /\ ops = <<>>
    /\ linkLog = <<>>
    /\ probe = <<>>
    /\ out = <<>>

Init == InitReport

Next ==
    \/ handleTimesheet
    \/ tokenStart
    \/ render
    \/ directReturn
    \/ listReturn
    \/ detailReturn
    \/ tick

Spec == Init /\ [][Next]_vars

\* One key looked up, against the rich service.
InitScan ==
    /\ inter = 1
    /\ cmd = "timesheet"
    /\ chan = "ch1"
    /\ caller = "d1"
    /\ map = [c \in {"d1"} |-> "u1"]
    /\ timeCfId = <<"time">>
    /\ tokens \in {<<TokKey>>, <<TokUrlKey>>, <<TokUrlKey2>>}
    /\ svc = RichSvc
    /\ backendId = <<>>
    /\ now = LateToday
    /\ pc = "idle"
    /\ ti = 0
    /\ site = ""
    /\ scan = NoScan
    /\ results = <<>>
    /\ reply = <<>>
    /\ msgs = {}
    /\ lastTimesheet = [k \in {} |-> 0]
    /\ calls = <<>>
    /\ answers = <<>>
    /\ outcomes = <<>>
    /\ failed = FALSE
    /\ ops = <<>>
    /\ linkLog = <<>>
    /\ probe = <<>>
    /\ out = <<>>

\* The clock stands still in the scan model.
NextScan ==
    \/ handleTimesheet
    \/ tokenStart
    \/ render
    \/ listReturn
    \/ detailReturn

SpecScan == InitScan /\ [][NextScan]_vars

\* ------------------------------------------------- handleLink, handleUnlink

\* The most link and unlink interactions of a run, and the most of them whose
\* handlers are under way at once.
MaxOps == 3
MaxInFlight == 2

\* Accounts as /users lists them: the email may be missing.
Acct(email, userId) == [email |-> email, userId |-> userId]
AcctA == Acct(<<"A", "@", "x">>, "u1")
AcctB == Acct(<<"b", "@", "x">>, "u2")
AcctNoMail == Acct(<<>>, "u3")

\* The email option of /linkfavro.
Emails == {<<"a", "@", "x">>, <<"B", "@", "x">>}

LinkSvc ==
    [lists |-> {},
     cards |-> {},
     users |-> {Page(<<AcctNoMail, AcctA>>, 2, <<"r1">>, <<"h1">>),
                Page(<<AcctB>>, 0, <<>>, <<>>)}]

\* findFavroUserByEmail does not tell a 403 from another failure.
UserAnswers == svc.users \cup {Failure}

\* A read that would give the file as it was when the process started.
loadMapAtStart == [c \in {} |-> "u1"]

\* data/user-map.json, read and written whole.
loadMap == map
saveMap(m) == map' = m

\* The params of favro.get('/users', ...).
UsersReq(op) ==
    [kind |-> "users", requestId |-> op.requestId,
     page |-> IF op.requestId # <<>> THEN <<op.page>> ELSE <<>>]

\* A comparison that would take any account for the one asked.
emailMatchesAny(u, email) == TRUE

\* (u.email || '').toLowerCase() === email.toLowerCase()
emailMatches(u, email) == toLowerCase(u.email) = toLowerCase(email)

\* The for loop over the accounts of a page: the first match, or none.
firstMatch(entities, email) ==
    LET hits == {i \in DOMAIN entities : emailMatches(entities[i], email)}
    IN IF hits = {} THEN <<>>
       ELSE <<entities[CHOOSE i \in hits : \A j \in hits : i <= j]>>

\* The locals of a handler: of handleLink, those of findFavroUserByEmail too.
NewOp(c, k, e) ==
    [by |-> c, cmd |-> k, email |-> e, at |-> "users", page |-> 0, pages |-> 1,
     requestId |-> <<>>, sent |-> <<>>, heard |-> <<>>, reply |-> ""]

\* The handler of interaction i ends with its reply.
ended(i, op, text, userId) ==
    /\ ops' = [j \in DOMAIN ops \cup {i} |->
                 IF j = i THEN [op EXCEPT !.at = "done", !.reply = text] ELSE ops[j]]
    /\ linkLog' = Append(linkLog, [op |-> i, by |-> op.by, cmd |-> op.cmd,
                                   reply |-> text, userId |-> userId])

\* interactionCreate takes a new interaction while handlers of earlier ones are
\* under way.
arrives ==
    /\ Len(ops) < MaxOps
    /\ Cardinality({i \in DOMAIN ops : ops[i].at # "done"}) < MaxInFlight

\* handleLink of a new interaction, up to the first request of
\* findFavroUserByEmail.
handleLink ==
    /\ arrives
    /\ \E c \in Callers, e \in Emails :
          LET op == NewOp(c, "linkfavro", e)
          IN ops' = Append(ops, [op EXCEPT !.sent = <<UsersReq(op)>>])
    /\ UNCHANGED <<envVars, backendId, now, reportVars, linkLog, probeVars>>

\* A request of findFavroUserByEmail is answered: the rest of the while loop, and
\* of handleLink when the function returns or throws.
usersReturn(i) ==
    /\ ops[i].at = "users"
    /\ \E ans \in UserAnswers :
          LET op == [ops[i] EXCEPT !.heard = Append(@, Heard(ans))]
          IN /\ persistBackendId(ans)
             /\ IF ans.kind # "ok"
                THEN ended(i, op, "failed", <<>>) /\ UNCHANGED map
                ELSE LET u == firstMatch(ans.entities, op.email)
                         pages == IF ans.pages = 0 THEN 1 ELSE ans.pages
                         nxt == [op EXCEPT !.requestId = ans.requestId, !.pages = pages,
                                           !.page = op.page + 1]
                     IN IF u # <<>>
                        THEN /\ saveMap([c \in DOMAIN loadMap \cup {op.by} |->
                                           IF c = op.by THEN u[1].userId ELSE loadMap[c]])
                             /\ ended(i, op, "linked", <<u[1].userId>>)
                        ELSE IF nxt.page < nxt.pages
                        THEN /\ ops' = [ops EXCEPT ![i] =
                                          [nxt EXCEPT !.sent = Append(@, UsersReq(nxt))]]
                             /\ UNCHANGED <<map, linkLog>>
                        ELSE ended(i, nxt, "nouser", <<>>) /\ UNCHANGED map
    /\ UNCHANGED <<timeCfId, svc, now, reportVars, probeVars>>

\* An unlink that would leave the entry in the file.
handleUnlinkKeep ==
    /\ arrives
    /\ \E c \in Callers :
          LET op == NewOp(c, "unlinkfavro", <<>>)
          IN IF c \in DOMAIN loadMap
             THEN ended(Len(ops) + 1, op, "unlinked", <<>>)
             ELSE ended(Len(ops) + 1, op, "notlinked", <<>>)
    /\ UNCHANGED <<envVars, backendId, now, reportVars, probeVars>>

\* handleUnlink of a new interaction: it awaits nothing between reading the file
\* and writing it.
handleUnlink ==
    /\ arrives
    /\ \E c \in Callers :
          LET op == NewOp(c, "unlinkfavro", <<>>)
          IN IF c \in DOMAIN loadMap
             THEN /\ saveMap([d \in DOMAIN loadMap \ {c} |-> loadMap[d]])
                  /\ ended(Len(ops) + 1, op, "unlinked", <<>>)
             ELSE /\ UNCHANGED map
                  /\ ended(Len(ops) + 1, op, "notlinked", <<>>)
    /\ UNCHANGED <<timeCfId, svc, backendId, now, reportVars, probeVars>>

InitLink ==
    /\ inter = 0
    /\ cmd = ""
    /\ chan = "ch1"
    /\ caller = "d1"
    /\ map = [c \in {} |-> "u1"]
    /\ timeCfId = <<"time">>
    /\ tokens = <<>>
    /\ svc = LinkSvc
    /\ backendId = <<>>
    /\ now = LateToday
    /\ pc = "done"
    /\ ti = 0
    /\ site = ""
    /\ scan = NoScan
    /\ results = <<>>
    /\ reply = <<>>
    /\ msgs = {}
    /\ lastTimesheet = [k \in {} |-> 0]
    /\ calls = <<>>
    /\ answers = <<>>
    /\ outcomes = <<>>
    /\ failed = FALSE
    /\ ops = <<>>
    /\ linkLog = <<>>
    /\ probe = <<>>
    /\ out = <<>>

NextLink ==
    \/ handleLink
    \/ \E i \in DOMAIN ops : usersReturn(i)
    \/ handleUnlink

SpecLink == InitLink /\ [][NextLink]_vars

\* ------------------------------------------------- interactionCreate

\* The command names the listener tests for.
Handled == {"timesheet", "linkfavro", "unlinkfavro"}

\* The next interaction arrives, here after the handler of the one before ended.
interactionCreate ==
    /\ pc = "done"
    /\ inter < MaxOps
    /\ inter' = inter + 1
    /\ cmd' \in {"timesheet", "timesheetdelete"}
    /\ caller' \in Callers
    /\ chan' \in Channels
    /\ tokens' \in {<<TokId>>, <<TokBad>>}
    /\ pc' = "idle"
    /\ ti' = 0
    /\ site' = ""
    /\ scan' = NoScan
    /\ results' = <<>>
    /\ reply' = <<>>
    /\ calls' = <<>>
    /\ answers' = <<>>
    /\ outcomes' = <<>>
    /\ failed' = FALSE
    /\ UNCHANGED <<envVars, backendId, now, msgs, lastTimesheet, linkVars, probeVars>>

\* The listener for a command none of its three tests names: it returns without
\* a reply, and nothing is read or written.
unhandled ==
    /\ pc = "idle"
    /\ cmd \notin Handled
    /\ pc' = "done"
    /\ UNCHANGED <<inter, cmd, chan, caller, tokens, ti, site, scan, results, reply, msgs,
                   lastTimesheet, calls, answers, outcomes, failed>>
    /\ UNCHANGED <<envVars, backendId, now, linkVars, probeVars>>

InitCmd ==
    /\ inter = 0
    /\ cmd = ""
    /\ chan = "ch1"
    /\ caller = "d1"
    /\ map = [c \in Callers |-> IF c = "d1" THEN "u1" ELSE "u2"]
    /\ timeCfId = <<"time">>
    /\ tokens = <<>>
    /\ svc = SmallSvc
    /\ backendId = <<>>
    /\ now = LateToday
    /\ pc = "done"
    /\ ti = 0
    /\ site = ""
    /\ scan = NoScan
    /\ results = <<>>
    /\ reply = <<>>
    /\ msgs = {}
    /\ lastTimesheet = [k \in {} |-> 0]
    /\ calls = <<>>
    /\ answers = <<>>
    /\ outcomes = <<>>
    /\ failed = FALSE
    /\ ops = <<>>
    /\ linkLog = <<>>
    /\ probe = <<>>
    /\ out = <<>>

NextCmd ==
    \/ interactionCreate
    \/ unhandled
    \/ handleTimesheet
    \/ tokenStart
    \/ directReturn
    \/ render

SpecCmd == InitCmd /\ [][NextCmd]_vars

\* ------------------------------------------------------ the day of a report

\* The instants of three local days.
Instants == (0 - TZOffset)..(3 * DayLen - 1 - TZOffset)

ProbeCard(at) ==
    [cardCommonId |-> Id1, sequentialId |-> <<1>>, prefix |-> <<"B">>,
     customFields |-> <<[customFieldId |-> "time",
                        reports |-> [u \in {"u1"} |-> <<Rep(MsPerMinute, "x", at)>>]]>>]

\* extractTodaysReports on a card with one report: the clock may move between
\* the readings that give the start and the end of the day.
extractDay ==
    /\ probe # <<>>
    /\ out = <<>>
    /\ \E nowE \in {now, now + 1} :
          out' = <<[nowS |-> now, nowE |-> nowE,
                    kept |-> extractTodaysReports(probe[1], "u1", "time", now, nowE)]>>
    /\ UNCHANGED <<envVars, backendId, now, reportVars, linkVars, probe>>

InitDay ==
    /\ inter = 0
    /\ cmd = ""
    /\ chan = "ch1"
    /\ caller = "d1"
    /\ map = [c \in {"d1"} |-> "u1"]
    /\ timeCfId = <<"time">>
    /\ tokens = <<>>
    /\ svc = SmallSvc
    /\ backendId = <<>>
    /\ now \in Instants
    /\ pc = "done"
    /\ ti = 0
    /\ site = ""
    /\ scan = NoScan
    /\ results = <<>>
    /\ reply = <<>>
    /\ msgs = {}
    /\ lastTimesheet = [k \in {} |-> 0]
    /\ calls = <<>>
    /\ answers = <<>>
    /\ outcomes = <<>>
    /\ failed = FALSE
    /\ ops = <<>>
    /\ linkLog = <<>>
    /\ probe \in {<<ProbeCard(at)>> : at \in {<<>>} \cup {<<t>> : t \in Instants}}
    /\ out = <<>>

NextDayProbe == extractDay

SpecDay == InitDay /\ [][NextDayProbe]_vars

\* --------------------------------------------------------- functions alone

\* All of the handlers at rest: the state in which a function is tried alone.
AtRest ==
    /\ inter = 0
    /\ cmd = ""
    /\ chan = "ch1"
    /\ caller = "d1"
    /\ map = [c \in {"d1"} |-> "u1"]
    /\ timeCfId = <<"time">>
    /\ tokens = <<>>
    /\ svc = SmallSvc
    /\ backendId = <<>>
    /\ now = LateToday
    /\ pc = "done"
    /\ ti = 0
    /\ site = ""
    /\ scan = NoScan
    /\ results = <<>>
    /\ reply = <<>>
    /\ msgs = {}
    /\ lastTimesheet = [k \in {} |-> 0]
    /\ calls = <<>>
    /\ answers = <<>>
    /\ outcomes = <<>>
    /\ failed = FALSE
    /\ ops = <<>>
    /\ linkLog = <<>>

\* The durations tried: every half minute up to a few hours with the
\* milliseconds around it, and the same around one day and around a hundred hours.
MaxHalfMinutes == 400
HalfMinute == MsPerMinute \div 2
Durations ==
    {k * HalfMinute + d : k \in 1..MaxHalfMinutes, d \in {0 - 1, 0, 1}}
    \cup {0, 1}
    \cup {h * 60 * MsPerMinute + (k * HalfMinute) + d :
            h \in {24, 100}, k \in {0 - 1, 0, 1}, d \in {0 - 1, 0}}

\* fmtHHMM applied to a duration.
format ==
    /\ probe # <<>>
    /\ out = <<>>
    /\ out' = <<fmtHHMM(probe[1])>>
    /\ UNCHANGED <<envVars, backendId, now, reportVars, linkVars, probe>>

InitFmt ==
    /\ AtRest
    /\ probe \in {<<ms>> : ms \in Durations}
    /\ out = <<>>

NextFmt == format

SpecFmt == InitFmt /\ [][NextFmt]_vars

\* ------------------------------------------- a hint, and the same key without

\* The boards a token may name: the configured ones, and one that is not.
Hints == {"w1", "w2", "w3"}

Closed == [denied |-> TRUE, pages |-> <<>>]
Open(pages) == [denied |-> FALSE, pages |-> pages]
\* B-1 is on the board or not, on its first page, on its second, or on a page past
\* the pages scanned; A-1 has the sequence of the key and another prefix.
BoardStates ==
    {Closed, Open(<<>>), Open(<<<<CardA1>>>>), Open(<<<<CardB1>>>>),
     Open(<<<<CardA1>>, <<CardB1>>>>), Open(<<<<CardA1>>, <<>>, <<CardB1>>>>)}
ServiceStates ==
    [lists : {{}}, cards : {{}}, users : {{}}, items : {{CardB1, CardA1}},
     boards : [Hints -> BoardStates], prefixListed : BOOLEAN]

\* One report of two tokens: the key B-1 in a URL of a board, then the key alone.
InitHint ==
    /\ inter = 1
    /\ cmd = "timesheet"
    /\ chan = "ch1"
    /\ caller = "d1"
    /\ map = [c \in {"d1"} |-> "u1"]
    /\ timeCfId = <<"time">>
    /\ tokens \in {<<Url(<<"favro", "com">>, <<"organization", "o", h>>, <<"B", "-", "1">>),
                     TokKey>> : h \in Hints}
    /\ svc \in ServiceStates
    /\ backendId = <<>>
    /\ now = LateToday
    /\ pc = "idle"
    /\ ti = 0
    /\ site = ""
    /\ scan = NoScan
    /\ results = <<>>
    /\ reply = <<>>
    /\ msgs = {}
    /\ lastTimesheet = [k \in {} |-> 0]
    /\ calls = <<>>
    /\ answers = <<>>
    /\ outcomes = <<>>
    /\ failed = FALSE
    /\ ops = <<>>
    /\ linkLog = <<>>
    /\ probe = <<>>
    /\ out = <<>>

SpecHint == InitHint /\ [][NextScan]_vars

\* ---------------------------------------------- the backend identifier

\* A service whose refusals and failures carry the X-Favro-Backend-Identifier
\* header as its pages do.
GateSvc ==
    [lists |-> {Page(<<>>, 2, <<"r1">>, <<"h1">>),
                Page(<<Basic(Id1, <<1>>, <<>>)>>, 0, <<"r1">>, <<>>),
                Answer("denied", <<>>, 0, <<>>, <<"h2">>),
                Answer("error", <<>>, 0, <<>>, <<"h2">>)},
     cards |-> {Found(<<>>, <<>>), Found(<<CardB1>>, <<"h2">>),
                Answer("denied", <<>>, 0, <<>>, <<"h1">>)},
     users |-> {}]

InitGate ==
    /\ inter = 1
    /\ cmd = "timesheet"
    /\ chan = "ch1"
    /\ caller = "d1"
    /\ map = [c \in {"d1"} |-> "u1"]
    /\ timeCfId = <<"time">>
    /\ tokens \in {<<TokKey>>, <<TokUrlKey>>}
    /\ svc = GateSvc
    /\ backendId = <<>>
    /\ now = LateToday
    /\ pc = "idle"
    /\ ti = 0
    /\ site = ""
    /\ scan = NoScan
    /\ results = <<>>
    /\ reply = <<>>
    /\ msgs = {}
    /\ lastTimesheet = [k \in {} |-> 0]
    /\ calls = <<>>
    /\ answers = <<>>
    /\ outcomes = <<>>
    /\ failed = FALSE
    /\ ops = <<>>
    /\ linkLog = <<>>
    /\ probe = <<>>
    /\ out = <<>>

SpecGate == InitGate /\ [][NextScan]_vars

\* --------------------------------------------------- the reports of a user

\* The reports a custom field may hold, per user: none, three of u1 of which the
\* second is of the next day, one of u1 and two of u2, one of u2.  The
\* description of a report names the field it is stored in.
ReportMaps(f) ==
    {[u \in {} |-> <<>>],
     [u \in {"u1"} |-> <<Rep(MsPerMinute, f, <<LateToday>>),
                         Rep(2 * MsPerMinute, f, <<NextDay>>),
                         Rep(3 * MsPerMinute, f, <<LateToday - 1>>)>>],
     [u \in {"u1", "u2"} |-> IF u = "u1"
                             THEN <<Rep(MsPerMinute, f, <<LateToday>>)>>
                             ELSE <<Rep(4 * MsPerMinute, f, <<LateToday>>),
                                    Rep(5 * MsPerMinute, f, <<LateToday - 1>>)>>],
     [u \in {"u2"} |-> <<Rep(4 * MsPerMinute, f, <<LateToday>>)>>]}
FieldsOf(f) == {[customFieldId |-> f, reports |-> r] : r \in ReportMaps(f)}
\* Cards of no, one or two custom fields.
ExtractCards ==
    LET Fields == FieldsOf("time") \cup FieldsOf("other")
    IN {[cardCommonId |-> Id1, sequentialId |-> <<1>>, prefix |-> <<"B">>,
         customFields |-> fs] : fs \in UNION {[1..n -> Fields] : n \in 0..2}}

\* extractTodaysReports(card, favroUserId, timeCfId), called late in the day.
extract ==
    /\ probe # <<>>
    /\ out = <<>>
    /\ out' = <<extractTodaysReports(probe[1].card, probe[1].favroUserId,
                                     probe[1].timeCfId, now, now)>>
    /\ UNCHANGED <<envVars, backendId, now, reportVars, linkVars, probe>>

InitExtract ==
    /\ AtRest
    /\ probe \in {<<[card |-> c, favroUserId |-> u, timeCfId |-> f]>> :
                     c \in ExtractCards, u \in {"u1", "u2"}, f \in {"time", "other", "none"}}
    /\ out = <<>>

NextExtract == extract

SpecExtract == InitExtract /\ [][NextExtract]_vars

\* ------------------------------------------- the pages of the user list

\* The value from which page++ leaves page as it is (2^53 for a JavaScript
\* number), scaled down.
PageLimit == 3

\* A service whose user list may report more pages than have been asked for,
\* whatever page is asked for.
LoopSvc ==
    [lists |-> {},
     cards |-> {},
     users |-> {Page(<<AcctNoMail, AcctA>>, 2, <<"r1">>, <<"h1">>),
                Page(<<AcctB>>, 0, <<>>, <<>>),
                Page(<<>>, PageLimit + 1, <<"r1">>, <<>>),
                Page(<<AcctNoMail>>, PageLimit + 1, <<"r2">>, <<"h2">>)}]

\* A request of findFavroUserByEmail, called by handleLink for the caller, is
\* answered: the rest of the while loop, and the reply of handleLink when the
\* function returns or throws.  probe holds the locals of the function.
findFavroUserByEmail ==
    /\ probe # <<>>
    /\ out = <<>>
    /\ \E ans \in UserAnswers :
          LET l == probe[1]
          IN /\ persistBackendId(ans)
             /\ IF ans.kind # "ok"
                THEN out' = <<"failed">> /\ UNCHANGED <<map, probe>>
                ELSE LET u == firstMatch(ans.entities, l.email)
                         pages == IF ans.pages = 0 THEN 1 ELSE ans.pages
                         page == IF l.page < PageLimit THEN l.page + 1 ELSE l.page
                     IN IF u # <<>>
                        THEN /\ saveMap([c \in DOMAIN loadMap \cup {caller} |->
                                           IF c = caller THEN u[1].userId ELSE loadMap[c]])
                             /\ out' = <<"linked">>
                             /\ UNCHANGED probe
                        ELSE IF page < pages
                        THEN /\ probe' = <<[l EXCEPT !.requestId = ans.requestId,
                                                     !.pages = pages, !.page = page]>>
                             /\ UNCHANGED <<map, out>>
                        ELSE out' = <<"nouser">> /\ UNCHANGED <<map, probe>>
    /\ UNCHANGED <<timeCfId, svc, now, reportVars, linkVars>>

InitPages ==
    /\ inter = 1
    /\ cmd = "linkfavro"
    /\ chan = "ch1"
    /\ caller \in Callers
    /\ map \in {[c \in {} |-> "u1"], [c \in {"d1"} |-> "u3"]}
    /\ timeCfId = <<"time">>
    /\ tokens = <<>>
    /\ svc = LoopSvc
    /\ backendId = <<>>
    /\ now = LateToday
    /\ pc = "done"
    /\ ti = 0
    /\ site = ""
    /\ scan = NoScan
    /\ results = <<>>
    /\ reply = <<>>
    /\ msgs = {}
    /\ lastTimesheet = [k \in {} |-> 0]
    /\ calls = <<>>
    /\ answers = <<>>
    /\ outcomes = <<>>
    /\ failed = FALSE
    /\ ops = <<>>
    /\ linkLog = <<>>
    /\ probe \in {<<[email |-> e, page |-> 0, pages |-> 1, requestId |-> <<>>]>> :
                     e \in Emails}
    /\ out = <<>>

NextPages == findFavroUserByEmail

\* Every request is answered in the end, by a response or a failure.
SpecPages == InitPages /\ [][NextPages]_vars /\ WF_vars(NextPages)

\* ------------------------------------------------------------------ claims

Last(s) == s[Len(s)]
Awaiting == pc \in {"direct", "list", "detail"}

\* C1: once a request of a report has failed with something other than a 403, the
\* handler has ended and what it delivered is the failure message alone, with no
\* report line of any token, whatever was gathered before the failure.
C1_NoPartialReport ==
    failed => /\ pc = "done"
              /\ reply = Reply("failed", <<>>)
              /\ \A m \in msgs : m.kind = "failed"

\* A failure on the second of three tokens, after the first gave its lines.
C1_Witness ==
    /\ failed
    /\ Len(tokens) = 3
    /\ ti = 2
    /\ results # <<>>
    /\ reply = Reply("failed", <<>>)

\* C2: a report asked by a caller without a link ends at once with the not-linked
\* reply: no token is looked at and no request is ever sent to Favro.
C2_UnlinkedFailsFast ==
    (caller \notin DOMAIN map /\ pc # "idle") =>
        /\ pc = "done"
        /\ reply = Reply("notlinked", <<>>)
        /\ calls = <<>>
        /\ answers = <<>>
        /\ outcomes = <<>>
        /\ results = <<>>
        /\ ti = 0
        /\ backendId = <<>>

\* An unlinked caller asked for two cards, of which one would be fetched.
C2_Witness ==
    /\ caller \notin DOMAIN map
    /\ pc = "done"
    /\ Len(tokens) = 2
    /\ tokens[1] = TokId
    /\ timeCfId # <<>>
    /\ reply = Reply("notlinked", <<>>)

\* The lines the k-th token owes, given what it resolved to.
C3_Segment(k) ==
    LET o == outcomes[k] IN
    IF o.card = <<>>
    THEN <<[cardKey |-> tokens[k].str, time |-> ZeroTime, desc |-> NotFoundDesc]>>
    ELSE IF o.entries = <<>>
    THEN <<[cardKey |-> getCardKey(o.card[1]), time |-> ZeroTime, desc |-> NoEntryDesc]>>
    ELSE [i \in DOMAIN o.entries |->
            [cardKey |-> getCardKey(o.card[1]), time |-> fmtHHMM(o.entries[i].ms),
             desc |-> o.entries[i].desc]]

RECURSIVE C3_Concat(_)
C3_Concat(n) == IF n = 0 THEN <<>> ELSE C3_Concat(n - 1) \o C3_Segment(n)

\* C3: the lines are the concatenation, in token order, of one not-found line per
\* unresolved token, one no-entry line per card without entries today, and the N
\* entry lines, in stored order, of a card with N entries; the report delivers
\* them for every token of the list.
C3_LinesInTokenOrder ==
    /\ Len(outcomes) <= Len(tokens)
    /\ results = C3_Concat(Len(outcomes))
    /\ (reply # <<>> /\ reply[1].kind = "report") =>
           /\ Len(outcomes) = Len(tokens)
           /\ reply[1].lines = results

\* Two tokens: the first unresolved, the second a card with two entries today.
C3_Witness ==
    /\ reply # <<>>
    /\ reply[1].kind = "report"
    /\ Len(tokens) = 2
    /\ outcomes[1].card = <<>>
    /\ Len(outcomes[2].entries) = 2
    /\ Len(reply[1].lines) = 3
    /\ reply[1].lines[1].desc = NotFoundDesc
    /\ reply[1].lines[2].desc = "Fixed bug"
    /\ reply[1].lines[3].desc = "(no description)"

\* The catch block has run.
Aborted == pc = "done" /\ reply # <<>> /\ reply[1].kind = "failed"
\* Token ti - 1 is finished and no later one has started: the histories calls and
\* answers are about it.
Finished == ti > 1 /\ ~Awaiting /\ ~Aborted
NotFoundLine(t) == [cardKey |-> t.str, time |-> ZeroTime, desc |-> NotFoundDesc]

\* The scopes of the scan of token t, in priority order.
C4_Order == orderedWidgets(preferredOf(tokens[1]))
C4_Place(w) == CHOOSE i \in DOMAIN C4_Order : C4_Order[i] = w
C4_DeniedAt(k) ==
    k \in DOMAIN answers /\ answers[k].kind = "denied" /\ calls[k].kind = "list"
\* An entity of a list page that carries the key of the token.
C4_Listed(k) ==
    /\ answers[k].kind = "ok"
    /\ calls[k].kind = "list"
    /\ \E i \in DOMAIN answers[k].entities :
          LET c == answers[k].entities[i] IN
          /\ c.sequentialId = <<1>>
          /\ toUpperCase(c.prefix) = <<"B">>

\* C4: in the scan for a key, a 403 to a list request, on whatever page of a
\* board, abandons that board only: the next request is the first page of the
\* next board in priority order (after the last board the key is not found),
\* the report is not aborted by it, and a card listed under the key by a later
\* board is returned.
C4_DeniedScopeSkipped ==
    /\ \A k \in DOMAIN answers :
          C4_DeniedAt(k) =>
             LET at == C4_Place(calls[k].widgetCommonId) IN
             IF at < Len(C4_Order)
             THEN /\ Len(calls) > k
                  /\ calls[k + 1].kind = "list"
                  /\ calls[k + 1].widgetCommonId = C4_Order[at + 1]
                  /\ calls[k + 1].requestId = <<>>
                  /\ calls[k + 1].page = <<>>
             ELSE /\ Len(calls) = k
                  /\ Finished
                  /\ outcomes[1].card = <<>>
    /\ Aborted => Last(answers).kind = "error"
    /\ \A k \in DOMAIN answers :
          (C4_DeniedAt(k) /\ ~Aborted /\ ~Awaiting) =>
             \A j \in DOMAIN answers :
                (j > k /\ C4_Listed(j)) => (Finished /\ outcomes[1].card # <<>>)

\* The second page of the first board is denied, and the card is found in a
\* later board.
C4_Witness ==
    /\ Finished
    /\ \E k \in DOMAIN answers :
          /\ C4_DeniedAt(k)
          /\ calls[k].widgetCommonId = C4_Order[1]
          /\ calls[k].page = <<1>>
          /\ \E j \in DOMAIN answers : j > k /\ C4_Listed(j)
    /\ outcomes[1].card # <<>>
    /\ getCardKey(outcomes[1].card[1]) = <<"B", "-", "1">>

\* A token that names a card by its id: the id itself, or a Favro URL with it.
C5_OpaqueId(t) ==
    \/ t.url = <<>> /\ Len(t.str) >= 8 /\ \A i \in DOMAIN t.str : IsLetter(t.str[i]) \/ IsDigit(t.str[i]) \/ t.str[i] = "_"
    \/ /\ t.url # <<>>
       /\ parseFavroUrlToken(t) # <<>>
       /\ parseFavroUrlToken(t)[1].cardCommonId # <<>>
C5_IdOf(t) == IF t.url = <<>> THEN t.str ELSE t.url[1].card
\* The requests of the token: one, the lookup of the id.
C5_Only(id) ==
    /\ Len(calls) = 1
    /\ calls[1].kind = "card"
    /\ calls[1].cardCommonId = id

\* C5: a token that is a card id is resolved by one direct lookup and nothing
\* else; when the lookup is denied (403) or returns no entity the token gets the
\* not-found line, and the report is not aborted by it.
C5_DirectLookupOnce ==
    /\ (Awaiting /\ C5_OpaqueId(tokens[ti])) =>
           (pc = "direct" /\ C5_Only(C5_IdOf(tokens[ti])) /\ answers = <<>>)
    /\ (Finished /\ C5_OpaqueId(tokens[ti - 1])) =>
           /\ C5_Only(C5_IdOf(tokens[ti - 1]))
           /\ Len(answers) = 1
           /\ (answers[1].kind = "denied" \/ answers[1].entities = <<>>) =>
                  /\ outcomes[ti - 1].card = <<>>
                  /\ Last(results) = NotFoundLine(tokens[ti - 1])
    /\ (Aborted /\ C5_OpaqueId(tokens[ti])) =>
           (Len(answers) = 1 /\ answers[1].kind = "error")

\* The lookup of the first of two ids was denied; the report goes on.
C5_Witness ==
    /\ Finished
    /\ ti = 2
    /\ Len(tokens) = 2
    /\ C5_OpaqueId(tokens[1])
    /\ answers = <<Heard(Denied)>>
    /\ results = <<NotFoundLine(tokens[1])>>

\* /^[A-Za-z]+-\d+$/ on a text.
C6_KeyPattern(s) ==
    \E k \in 2..(Len(s) - 1) :
       /\ s[k] = "-"
       /\ \A i \in 1..(k - 1) : IsLetter(s[i])
       /\ \A i \in (k + 1)..Len(s) : IsDigit(s[i])
C6_IdPattern(s) ==
    Len(s) >= 8 /\ \A i \in DOMAIN s : IsLetter(s[i]) \/ IsDigit(s[i]) \/ s[i] = "_"
\* Not a Favro URL with a card parameter, not an id, not a key.
C6_Unparseable(t) ==
    /\ ~C6_KeyPattern(t.str)
    /\ ~C6_IdPattern(t.str)
    /\ \/ t.url = <<>>
       \/ ~IsFavroHost(t.url[1].hostname)
       \/ t.url[1].card = <<>>

\* C6: the turn of the loop for a token that is no Favro URL with a card, no id
\* and no key sends no request: it pushes the one not-found line of the token and
\* the loop is at the next token.
C6_UnparseableNoCall ==
    [][(pc = "token" /\ ti <= Len(tokens) /\ C6_Unparseable(tokens[ti])) =>
          /\ results' = Append(results, NotFoundLine(tokens[ti]))
          /\ calls' = <<>>
          /\ pc' = "token"
          /\ ti' = ti + 1
          /\ reply' = reply
          /\ backendId' = backendId]_vars

\* An unparseable token got its line, and the token after it was resolved.
C6_Witness ==
    /\ Finished
    /\ ti = 3
    /\ C6_Unparseable(tokens[1])
    /\ tokens[1] = TokBad
    /\ outcomes[1] = [card |-> <<>>, entries |-> <<>>, called |-> FALSE]
    /\ outcomes[2].card # <<>>
    /\ results[1] = NotFoundLine(tokens[1])

\* What the table owes caller c after the first n handlers that ended: the user
\* of c's most recent successful link, unless an unlink of c followed it.
C7_Entry(c, n) ==
    LET links == {j \in 1..n : linkLog[j].by = c /\ linkLog[j].reply = "linked"}
    IN IF links = {} THEN <<>>
       ELSE LET j == CHOOSE k \in links : \A l \in links : l <= k
            IN IF \E k \in (j + 1)..n : linkLog[k].by = c /\ linkLog[k].cmd = "unlinkfavro"
               THEN <<>>
               ELSE linkLog[j].userId

\* C7: after any link and unlink handlers, the table holds for each caller the
\* user of that caller's most recent successful link if no unlink of the caller
\* followed it, and no entry otherwise; an unlink answers "unlinked" exactly when
\* the caller had an entry, and "not linked" otherwise.
C7_LinkTable ==
    /\ \A c \in Callers :
          /\ c \in DOMAIN map <=> C7_Entry(c, Len(linkLog)) # <<>>
          /\ c \in DOMAIN map => <<map[c]>> = C7_Entry(c, Len(linkLog))
    /\ DOMAIN map \subseteq Callers
    /\ \A n \in DOMAIN linkLog :
          linkLog[n].cmd = "unlinkfavro" =>
             /\ linkLog[n].reply \in {"unlinked", "notlinked"}
             /\ linkLog[n].reply = "unlinked" <=> C7_Entry(linkLog[n].by, n - 1) # <<>>

\* A caller links, unlinks and unlinks again: the second unlink finds no entry.
C7_Witness ==
    /\ Len(linkLog) = 3
    /\ \A n \in 1..3 : linkLog[n].by = "d1"
    /\ linkLog[1].reply = "linked"
    /\ linkLog[2].reply = "unlinked"
    /\ linkLog[3].reply = "notlinked"
    /\ map = [c \in {} |-> "u1"]

\* Two texts equal but for the case of their letters.
C8_SameEmail(a, b) ==
    /\ Len(a) = Len(b)
    /\ \A i \in DOMAIN a :
          \/ a[i] = b[i]
          \/ /\ a[i] \in Range(LowerLetters) \cup Range(UpperLetters)
             /\ b[i] \in Range(LowerLetters) \cup Range(UpperLetters)
             /\ LowerChar(a[i]) = LowerChar(b[i])
\* The accounts the listing returned to a handler.
C8_Listed(op) ==
    UNION {Range(op.heard[k].entities) : k \in DOMAIN op.heard}

\* C8: a link handler ends with "linked" only if a page of the account listing it
\* got held an account whose email is the given one ignoring case, and then the
\* caller's entry is that account's user; when no listed account matches, or a
\* request failed, it does not end with "linked" and the table is as it was,
\* with the entry the caller may have had.
C8_LinkOnlyOnMatch ==
    [][\A i \in DOMAIN ops :
          (ops[i].cmd = "linkfavro" /\ ops[i].at = "users" /\ ops'[i].at = "done") =>
             LET op == ops'[i]
                 hits == {u \in C8_Listed(op) : C8_SameEmail(u.email, op.email)}
             IN /\ op.reply \in {"linked", "nouser", "failed"}
                /\ op.reply = "linked" =>
                      \E u \in hits : /\ op.by \in DOMAIN map'
                                      /\ map'[op.by] = u.userId
                                      /\ \A c \in Callers \ {op.by} :
                                            /\ c \in DOMAIN map' <=> c \in DOMAIN map
                                            /\ c \in DOMAIN map => map'[c] = map[c]
                /\ op.reply # "linked" => map' = map
                /\ (hits = {} \/ Last(op.heard).kind # "ok") => op.reply # "linked"
                /\ Last(op.heard).kind # "ok" <=> op.reply = "failed"]_vars

\* A caller who is linked asks for an email that no listed account has, over two
\* pages: the entry stays.
C8_Witness ==
    \E i \in DOMAIN ops :
       /\ ops[i].at = "done"
       /\ ops[i].cmd = "linkfavro"
       /\ ops[i].reply = "nouser"
       /\ Len(ops[i].heard) = 2
       /\ ops[i].by \in DOMAIN map
       /\ \E j \in 1..(i - 1) : ops[j].by = ops[i].by /\ ops[j].reply = "linked"

\* C9: once a report is posted, the file of last reports maps its caller and
\* channel to the report's message; and a /timesheetdelete that follows it, by
\* that caller in that channel, is answered, takes that message away and
\* clears the entry.
C9_LastReportRetracted ==
    /\ (pc = "done" /\ cmd = "timesheet" /\ reply # <<>> /\ reply[1].kind = "report") =>
          /\ <<caller, chan>> \in DOMAIN lastTimesheet
          /\ lastTimesheet[<<caller, chan>>] = inter
    /\ (pc = "done" /\ cmd = "timesheetdelete") =>
          /\ <<caller, chan>> \notin DOMAIN lastTimesheet
          /\ \A m \in msgs :
                (m.kind = "report" /\ m.by = caller /\ m.ch = chan) => m.id # inter - 1

\* The local day an instant falls in.
C10_LocalDay(x) == (x + TZOffset) \div DayLen
C10_Included == out # <<>> /\ out[1].kept # <<>>
C10_CreatedAt == probe[1].customFields[1].reports["u1"][1].createdAt

\* C10: when the readings of the clock are of one local day, a report is kept
\* if and only if its creation instant lies between the start and the end of
\* that day, both included: the last instant of the day is kept, the first
\* instant of the next day is not.
C10_ClosedDayWindow ==
    (out # <<>> /\ C10_LocalDay(out[1].nowS) = C10_LocalDay(out[1].nowE)) =>
       LET ref == out[1].nowS
           first == C10_LocalDay(ref) * DayLen - TZOffset
           last == first + DayLen - 1
       IN /\ C10_Included <=> /\ C10_CreatedAt # <<>>
                              /\ first <= C10_CreatedAt[1]
                              /\ C10_CreatedAt[1] <= last
          /\ C10_CreatedAt = <<last>> => C10_Included
          /\ C10_CreatedAt = <<first>> => C10_Included
          /\ C10_CreatedAt = <<last + 1>> => ~C10_Included
          /\ C10_CreatedAt = <<first - 1>> => ~C10_Included
          /\ C10_Included =>
                /\ C10_LocalDay(C10_CreatedAt[1]) = C10_LocalDay(ref)
                /\ out[1].kept = <<[ms |-> MsPerMinute, desc |-> "x",
                                    createdAt |-> C10_CreatedAt]>>

\* A report of the last instant of the day is kept, the clock having moved
\* between the two readings.
C10_Witness ==
    /\ out # <<>>
    /\ out[1].nowS = LateToday - 1
    /\ out[1].nowE = LateToday
    /\ C10_CreatedAt = <<LateToday>>
    /\ C10_LocalDay(LateToday + 1) = C10_LocalDay(LateToday) + 1
    /\ C10_Included

\* The place of the colon in a text, 0 when it has none or several.
C11_Colon(s) ==
    LET ks == {k \in DOMAIN s : s[k] = ":"}
    IN IF Cardinality(ks) = 1 THEN CHOOSE k \in ks : TRUE ELSE 0
\* n is a whole number of minutes nearest to ms.
C11_Nearest(n, ms) ==
    /\ 2 * (ms - n * MsPerMinute) <= MsPerMinute
    /\ 2 * (n * MsPerMinute - ms) <= MsPerMinute

\* C11: the text of a duration is HH:MM with HH and MM digits; they are the
\* quotient and the remainder by 60 of the duration rounded to the nearest
\* minute; MM has two digits and is below 60, HH has two digits or, from a
\* hundred hours on, as many as it needs: it is not capped at 24.
C11_FormatHHMM ==
    out # <<>> =>
       LET s == out[1]
           k == C11_Colon(s)
           hh == SubSeq(s, 1, k - 1)
           mm == SubSeq(s, k + 1, Len(s))
       IN /\ k # 0
          /\ \A i \in DOMAIN s : i # k => IsDigit(s[i])
          /\ Len(mm) = 2
          /\ Number(mm) < 60
          /\ Len(hh) >= 2
          /\ Len(hh) > 2 => hh[1] # "0"
          /\ C11_Nearest(Number(hh) * 60 + Number(mm), probe[1])
          /\ probe[1] = 90 * MsPerMinute => s = <<"0", "1", ":", "3", "0">>
          /\ probe[1] = 24 * 60 * MsPerMinute => s = <<"2", "4", ":", "0", "0">>

\* Half a minute short of a hundred hours rounds up to 100:00.
C11_Witness ==
    /\ out = <<<<"1", "0", "0", ":", "0", "0">>>>
    /\ probe = <<100 * 60 * MsPerMinute - HalfMinute>>

\* The list requests of the scan, in the order sent.
ListCalls == SelectSeq(calls, LAMBDA c : c.kind = "list")
\* The hint of the token, and the order the scopes are due in: the hint, then
\* the configured boards but the hint.
C12_Hint == IF tokens[1].url = <<>> THEN <<>> ELSE <<tokens[1].url[1].parts[3]>>
C12_Expected ==
    C12_Hint \o SelectSeq(WIDGET_IDS, LAMBDA w : <<w>> # C12_Hint)
C12_Pos(w) == CHOOSE i \in DOMAIN C12_Expected : C12_Expected[i] = w

\* C12: the list requests of a scan go board by board in priority order: the
\* first is for the hint when there is one, else for the first configured board;
\* each next one is for the same board or for the one right after it in the
\* order; no board comes back once left, so a hint that is configured is
\* scanned once; a scan that finds nothing has reached the last board.
C12_ScopeOrder ==
    LET L == ListCalls IN
    /\ \A k \in DOMAIN L : L[k].widgetCommonId \in Range(C12_Expected)
    /\ L # <<>> => L[1].widgetCommonId = C12_Expected[1]
    /\ \A k \in 1..(Len(L) - 1) :
          \/ C12_Pos(L[k + 1].widgetCommonId) = C12_Pos(L[k].widgetCommonId)
          \/ C12_Pos(L[k + 1].widgetCommonId) = C12_Pos(L[k].widgetCommonId) + 1
    /\ (Finished /\ outcomes[1].card = <<>>) =>
          (L # <<>> /\ C12_Pos(Last(L).widgetCommonId) = Len(C12_Expected))

\* The hint is the second configured board: it is scanned first, over two
\* pages, then the first configured board, and nothing is found.
C12_Witness ==
    /\ Finished
    /\ outcomes[1].card = <<>>
    /\ C12_Hint = <<"w2">>
    /\ Len(ListCalls) = 3
    /\ ListCalls[1].widgetCommonId = "w2"
    /\ ListCalls[2].widgetCommonId = "w2"
    /\ ListCalls[3].widgetCommonId = "w1"

\* The key of the scan, and whether a card or a listed entity carries it.
ScanKey == parseKey(IF tokens[1].url = <<>> THEN tokens[1].str ELSE tokens[1].url[1].card)[1]
HasSeq(c) == c.sequentialId = <<ScanKey.sequentialId>>
HasPrefix(c) == c.prefix # <<>> /\ toUpperCase(c.prefix) = ScanKey.prefix
\* The last list request, the page it got, and the card a scan returned.
LastList == CHOOSE k \in DOMAIN calls :
               calls[k].kind = "list" /\ \A j \in DOMAIN calls : calls[j].kind = "list" => j <= k
Returned == Finished /\ outcomes[1].card # <<>>
\* The listed candidates a returned card comes from: the entities of the last
\* page with the sequence of the key and, when a detailed fetch followed, its id.
Candidates ==
    LET page == answers[LastList].entities
    IN {page[i] : i \in {j \in DOMAIN page :
                           /\ HasSeq(page[j])
                           /\ Last(calls).kind = "card" =>
                                 page[j].cardCommonId = Last(calls).cardCommonId}}

\* C13: a card is returned from a listed candidate with the sequence of the
\* key only if the prefix the listing carries is that of the key, or the listing
\* carries none and one detailed fetch gave a card with the prefix and the
\* sequence of the key; a candidate listed with another prefix is not returned.
C13_PrefixVerified ==
    Returned =>
       \A c \in Candidates :
          /\ c.prefix # <<>> => HasPrefix(c)
          /\ c.prefix = <<>> =>
                /\ Last(calls).kind = "card"
                /\ HasPrefix(outcomes[1].card[1])
                /\ HasSeq(outcomes[1].card[1])

\* C14: the board of the hint.
C14_Hint == parseFavroUrlToken(tokens[1])[1].widgetCommonId
\* The items of the service that the key of the two tokens matches.
C14_Matching ==
    LET key == parseKey(tokens[2].str)[1]
    IN {c \in svc.items : seqMatches(c, key) /\ prefixMatches(c, key)}
\* Both tokens are resolved.
C14_Resolved == Len(outcomes) = 2 /\ Cardinality(C14_Matching) <= 1

\* C14 as the specification states it: whatever the hint, the key resolves with
\* it to what it resolves to without it, the same card or none in both.
C14_HintNeverChangesOutcome ==
    C14_Resolved => outcomes[1].card = outcomes[2].card

\* C14, for a hint that is one of the configured boards: against a service in
\* which at most one item matches the key, the key resolves with the hint to what
\* it resolves to without it, the same card or none in both.  (A hint that is no
\* configured board is scanned all the same, and a card found only there is
\* found with the hint and not without.)
C14_ConfiguredHintKeepsOutcome ==
    (C14_Resolved /\ C14_Hint \in Range(WIDGET_IDS))
        => outcomes[1].card = outcomes[2].card

\* The hint is the second configured board, which alone holds the card, behind a
\* first board that lists a card of the same sequence: the two scans take the
\* boards in different orders and return the same card.
C14_Witness ==
    /\ C14_Resolved
    /\ C14_Hint = WIDGET_IDS[2]
    /\ svc.boards[WIDGET_IDS[1]] = Open(<<<<CardA1>>>>)
    /\ svc.boards[WIDGET_IDS[2]] = Open(<<<<CardA1>>, <<CardB1>>>>)
    /\ outcomes[1].card = <<CardB1>>
    /\ outcomes[2].card = <<CardB1>>

\* The identifier of the last of the first n answers that carried one, of
\* whatever status; empty when none did.
C15_LastCarried(n) ==
    LET S == {j \in 1..n : answers[j].header # <<>>}
    IN IF S = {} THEN <<>> ELSE answers[CHOOSE j \in S : \A i \in S : i <= j].header

\* C15: the persisted backend identifier is unset or is the identifier of the
\* last response that carried one, whatever the status of that response (a
\* response without one leaves it as it was), and every request is sent with
\* the identifier persisted when it is sent.
C15_TokenFollowsEveryResponse ==
    /\ backendId = C15_LastCarried(Len(answers))
    /\ \A k \in DOMAIN calls : calls[k].backend = C15_LastCarried(k - 1)

\* The answered list requests of the scan, and the request after the ones that
\* follow list request k up to the next list request.
C16_Lists == {k \in DOMAIN answers : calls[k].kind = "list"}
C16_NextList(k) ==
    LET later == {j \in DOMAIN calls : j > k /\ calls[j].kind = "list"}
    IN IF later = {} THEN Len(calls) + 1 ELSE CHOOSE j \in later : \A m \in later : j <= m
\* Of the first upto entities of the page of request k, the ones the loop
\* fetches when it gets to them: they have the sequence of the key, and an id.
C16_Fetchable(k, upto) ==
    {j \in 1..upto : HasSeq(answers[k].entities[j])
                     /\ answers[k].entities[j].cardCommonId # <<>>}
\* The card that the fetch of entity j of page k gave, if any.
C16_Detail(k, j) ==
    fetchCardByCommonId(answers[k + Cardinality(C16_Fetchable(k, j))]).card
\* The requests between list request k and the next one are the fetches of the
\* fetchable ones of the first upto entities of its page, in the order of the page.
C16_FetchedInOrder(k, upto) ==
    /\ C16_NextList(k) - k - 1 = Cardinality(C16_Fetchable(k, upto))
    /\ \A j \in C16_Fetchable(k, upto) :
          LET r == calls[k + Cardinality(C16_Fetchable(k, j))]
          IN r.kind = "card" /\ r.cardCommonId = answers[k].entities[j].cardCommonId
\* Entity j of page k could not be accepted: it is not listed with the key, and
\* its fetch, if it was fetched, did not give a card with the key.
C16_Rejected(k, j) ==
    LET c == answers[k].entities[j]
    IN /\ ~(HasSeq(c) /\ HasPrefix(c))
       /\ j \in C16_Fetchable(k, j) => ~verified(C16_Detail(k, j), ScanKey)
\* Entity i of page k was accepted, and is what the scan returned.
C16_AcceptedAt(k, i) ==
    LET c == answers[k].entities[i]
    IN /\ HasSeq(c)
       /\ IF HasPrefix(c)
          THEN outcomes[1].card = IF c.cardCommonId # <<>> /\ C16_Detail(k, i) # <<>>
                                  THEN C16_Detail(k, i) ELSE <<c>>
          ELSE /\ c.cardCommonId # <<>>
               /\ verified(C16_Detail(k, i), ScanKey)
               /\ outcomes[1].card = C16_Detail(k, i)

\* C16: a scan that returns a card returns the first acceptable entity in the
\* order of boards, pages and positions in the page: every entity of the pages
\* before the last was examined and rejected, the accepted entity is on the
\* last page listed, the entities before it on that page were examined and
\* rejected, and nothing is requested after it: no entity behind it is fetched,
\* no page and no board is listed.
C16_FirstAcceptedStops ==
    Returned =>
        LET last == LastList
        IN /\ \A k \in C16_Lists \ {last} :
                 /\ C16_FetchedInOrder(k, Len(answers[k].entities))
                 /\ \A j \in DOMAIN answers[k].entities : C16_Rejected(k, j)
           /\ \E i \in DOMAIN answers[last].entities :
                 /\ C16_FetchedInOrder(last, i)
                 /\ C16_AcceptedAt(last, i)
                 /\ \A j \in 1..(i - 1) : C16_Rejected(last, j)

\* The first board listed a card of the sequence of the key, fetched and
\* rejected; on a later page the first entity is fetched and accepted, and the
\* entity behind it, listed with the key, is not looked at.
C16_Witness ==
    /\ Returned
    /\ LastList > 2
    /\ calls[2].kind = "card"
    /\ Len(answers[LastList].entities) = 2
    /\ C16_AcceptedAt(LastList, 1)
    /\ HasSeq(answers[LastList].entities[2]) /\ HasPrefix(answers[LastList].entities[2])
    /\ calls[LastList].widgetCommonId # calls[1].widgetCommonId

\* The list requests for board w among the first k requests of the scan.
C17_CallsFor(w, k) ==
    {j \in 1..k : calls[j].kind = "list" /\ calls[j].widgetCommonId = w}
\* The page count that answer k reported; a response without one counts as a
\* single page.
C17_Reported(k) == IF answers[k].pages = 0 THEN 1 ELSE answers[k].pages
\* The scan is through with board w: it was refused, or as many pages were
\* listed as the bound allows or as the last page reported.
C17_Exhausted(w) ==
    LET mine == C17_CallsFor(w, Len(calls))
    IN /\ mine # {}
       /\ LET last == CHOOSE j \in mine : \A m \in mine : m <= j
          IN \/ answers[last].kind = "denied"
             \/ Cardinality(mine) = MAX_PAGES_PER_WIDGET
             \/ Cardinality(mine) >= C17_Reported(last)

\* C17: at every list request of a scan, the list requests made so far for its
\* board are no more than MAX_PAGES_PER_WIDGET and, from the second on, no more
\* than the page count that the response to the previous one reported; a scan
\* that accepted no card in any board within these bounds has been through
\* every board and yields the not-found line.
C17_PageBound ==
    /\ \A k \in DOMAIN calls :
          calls[k].kind = "list" =>
              LET mine == C17_CallsFor(calls[k].widgetCommonId, k)
                  before == mine \ {k}
              IN /\ Cardinality(mine) <= MAX_PAGES_PER_WIDGET
                 /\ before # {} =>
                       LET prev == CHOOSE j \in before : \A m \in before : m <= j
                       IN /\ answers[prev].kind = "ok"
                          /\ Cardinality(mine) <= C17_Reported(prev)
    /\ (Finished /\ ~Returned) =>
          /\ results = <<NotFoundLine(tokens[1])>>
          /\ \A w \in Range(C12_Expected) : C17_Exhausted(w)

\* No board had the card: one was left after its first page, which reported no
\* further page, and one after MAX_PAGES_PER_WIDGET pages of the three reported.
C17_Witness ==
    /\ Finished
    /\ ~Returned
    /\ \E w \in Range(C12_Expected) :
          LET mine == C17_CallsFor(w, Len(calls))
          IN Cardinality(mine) = 1 /\ \A j \in mine : answers[j].kind = "ok"
    /\ \E w \in Range(C12_Expected) :
          LET mine == C17_CallsFor(w, Len(calls))
          IN /\ Cardinality(mine) = MAX_PAGES_PER_WIDGET
             /\ \A j \in mine : answers[j].kind = "ok" /\ answers[j].pages > MAX_PAGES_PER_WIDGET

\* What the extractor makes of a stored report.
C18_Entry(r) ==
    [ms |-> r.value,
     desc |-> IF r.description = "" THEN "(no description)" ELSE r.description,
     createdAt |-> r.createdAt]
\* a is b with some of its elements left out, the others in the order of b.
C18_Subsequence(a, b) ==
    \E f \in [DOMAIN a -> DOMAIN b] :
       /\ \A i, j \in DOMAIN a : i < j => f[i] < f[j]
       /\ \A i \in DOMAIN a : a[i] = b[f[i]]
\* The custom fields of the card that have the id asked for and reports of the
\* user asked for.
C18_Holding ==
    LET fs == probe[1].card.customFields
    IN {i \in DOMAIN fs : /\ fs[i].customFieldId = probe[1].timeCfId
                          /\ probe[1].favroUserId \in DOMAIN fs[i].reports}

\* C18: what extractTodaysReports returns is empty, or made of reports stored
\* under favroUserId in a custom field of id timeCfId, in the order they are
\* stored in (none of another user, none of another field); for a card without
\* such a field, or whose field has nothing under that user, it is empty.
C18_OnlyOwnReportsInOrder ==
    out # <<>> =>
        LET fs == probe[1].card.customFields
        IN /\ out[1] # <<>> =>
                 \E i \in C18_Holding :
                    LET stored == fs[i].reports[probe[1].favroUserId]
                    IN C18_Subsequence(out[1], [k \in DOMAIN stored |-> C18_Entry(stored[k])])
           /\ C18_Holding = {} => out[1] = <<>>

\* A card whose first field is another one, with reports of the same user, and
\* whose time field holds reports of two users: of the three reports of the
\* user the first and the third come back, in that order.
C18_Witness ==
    /\ out # <<>>
    /\ probe[1].favroUserId = "u1"
    /\ probe[1].timeCfId = "time"
    /\ Len(probe[1].card.customFields) = 2
    /\ probe[1].card.customFields[1].customFieldId = "other"
    /\ "u1" \in DOMAIN probe[1].card.customFields[1].reports
    /\ Len(out[1]) = 2
    /\ out[1][1].ms = MsPerMinute
    /\ out[1][2].ms = 3 * MsPerMinute

\* The entry of caller c in the table m, if any.
C19_EntryOf(m, c) == IF c \in DOMAIN m THEN <<m[c]>> ELSE <<>>

\* C19: whatever handlers of other interactions are under way, a handler that
\* ends changes the entry of its own caller only, to the user it linked or to
\* nothing when it unlinked, and leaves every other caller's entry as the last
\* handler of that caller left it; a step that ends no handler leaves the table
\* alone.  So no handler writes back a table read before another one's write.
C19_NoLostUpdate ==
    [][IF Len(linkLog') = Len(linkLog) + 1
       THEN LET e == linkLog'[Len(linkLog')]
            IN \A c \in Callers :
                  C19_EntryOf(map', c) =
                      IF c # e.by THEN C19_EntryOf(map, c)
                      ELSE IF e.reply = "linked" THEN e.userId
                      ELSE IF e.reply = "unlinked" THEN <<>>
                      ELSE C19_EntryOf(map, c)
       ELSE map' = map]_vars

\* Two callers link at the same time: the handler of the first interaction is
\* still waiting for the user list when the handler of the second writes the
\* table, and writes after it; both entries are in the table.
C19_Witness ==
    /\ Len(linkLog) = 2
    /\ ops[1].by # ops[2].by
    /\ linkLog[1].op = 2 /\ linkLog[1].reply = "linked"
    /\ linkLog[2].op = 1 /\ linkLog[2].reply = "linked"
    /\ Len(ops[1].sent) = 2
    /\ DOMAIN map = {ops[1].by, ops[2].by}

\* The requests of the token that are not answered yet.
C20_Outstanding == Len(calls) - Len(answers)
\* Two requests ask for the same thing.
C20_Same(a, b) ==
    /\ a.kind = b.kind
    /\ a.widgetCommonId = b.widgetCommonId
    /\ a.cardCommonId = b.cardCommonId
    /\ a.requestId = b.requestId
    /\ a.page = b.page

\* C20: in a report, once a Favro request has failed other than with a 403 no
\* request is sent any more, for this token or a later one; a request refused
\* with a 403 is not sent again; at most one request is under way, a request is
\* sent for the token the loop is at, and the loop goes to the next token only
\* when every request of the token has been answered.
C20_NoRetrySequential ==
    [][/\ failed' => calls' = calls
       /\ C20_Outstanding' \in {0, 1}
       /\ ti' # ti => C20_Outstanding' = 0
       /\ (calls' # calls /\ C20_Outstanding' = 1) => (ti' = ti /\ ti \in DOMAIN tokens)
       /\ (C20_Outstanding' = 1 /\ Len(answers') >= 1
              /\ answers'[Len(answers')].kind # "ok") =>
             ~C20_Same(calls'[Len(calls')], calls'[Len(calls') - 1])]_vars

\* Of three tokens the first was looked up and reported; the second request for
\* the second token failed, and nothing was sent for it or for the third after.
C20_Witness ==
    /\ failed
    /\ pc = "done"
    /\ Len(tokens) = 3
    /\ ti = 2
    /\ Len(calls) = 2
    /\ Len(answers) = 2
    /\ answers[2].kind = "error"
    /\ Len(outcomes) = 1

\* C21: for every token of a report at most one way of resolving it is taken,
\* once: a direct lookup by card id starts only as the first request of a token
\* and nothing follows it for that token, a scan of the boards starts only as the
\* first request of a token, and the id of a direct lookup holds no hyphen, so
\* that a key such as BOK-6074 is never looked up as an id.
C21_OneStrategyOnce ==
    [][/\ (pc' = "direct" /\ calls' # calls) =>
             /\ pc = "token"
             /\ calls' = <<calls'[1]>>
             /\ calls'[1].kind = "card"
             /\ "-" \notin Range(calls'[1].cardCommonId)
       /\ pc = "direct" => (pc' \in {"token", "done"} \/ (pc' = "direct" /\ calls' = calls))
       /\ (pc' = "list" /\ pc \notin {"list", "detail"}) =>
             /\ pc = "token"
             /\ calls' = <<calls'[1]>>
       /\ (pc' = "detail" /\ calls' # calls) => pc \in {"list", "detail"}]_vars

\* The key BOK-6074, as long as a card id, was scanned for and not found, without
\* any lookup by id; the id after it was looked up once and not found, without
\* any scan.
C21_Witness ==
    /\ pc = "done"
    /\ tokens = <<TokKeyLong, TokId>>
    /\ Len(outcomes) = 2
    /\ outcomes[1].card = <<>> /\ outcomes[2].card = <<>>
    /\ Len(calls) = 1
    /\ calls[1].kind = "card"
    /\ reply # <<>>
    /\ reply[1].kind = "report"

\* C22, for a link request: whatever page counts and accounts the service
\* reports, when every request is answered the handler sends finitely many
\* requests and delivers its reply in the end.
C22_LinkCompletes == <>(out # <<>>)

\* C23: in a scan, the first list request for a board carries no cursor and no
\* page index; the p-th request after it for the same board carries the cursor
\* that the response to the one before returned, and the page index p, so that
\* no page is asked for twice and no cursor goes to another board than the one
\* it was returned for.
C23_ContinuationProtocol ==
    \A k \in DOMAIN calls :
       calls[k].kind = "list" =>
           LET mine == C17_CallsFor(calls[k].widgetCommonId, k)
               before == mine \ {k}
           IN IF before = {}
              THEN calls[k].requestId = <<>> /\ calls[k].page = <<>>
              ELSE LET prev == CHOOSE j \in before : \A m \in before : m <= j
                   IN /\ calls[k].requestId # <<>>
                      /\ calls[k].requestId = answers[prev].requestId
                      /\ calls[k].page = <<Cardinality(before)>>

\* C24: the card that a scan returns, by whichever return of
\* findCardByKeyInBoards, has the prefix of the key, letter case apart, and its
\* sequence.
C24_ReturnedMatchesKey ==
    Returned => (HasPrefix(outcomes[1].card[1]) /\ HasSeq(outcomes[1].card[1]))

\* C25: the entries of one delivered report, over all its tokens, were created on
\* one local day.
C25_Lines == UNION {Range(outcomes[i].entries) : i \in DOMAIN outcomes}
C25_OneLocalDay ==
    (pc = "done" /\ ~failed) =>
        \A a, b \in C25_Lines :
            C10_LocalDay(a.createdAt[1]) = C10_LocalDay(b.createdAt[1])

====
